---------------------------- MODULE Spec2Model ----------------------------
(***************************************************************************)
(* Legacy authcrypt packing (Aries RFC 0019) of aries-framework-go:        *)
(* Crypter.Encrypt, buildRecipients, buildRecipient and buildEnvelope of   *)
(* pkg/didcomm/crypto/legacy/authcrypt/encrypt.go, with the collaborators  *)
(* the code calls (the randomness source, the KMS key conversion, the      *)
(* crypto box, the AEAD) and the inverse operation Decrypt.                *)
(*                                                                         *)
(* Cryptographic values are symbolic terms: an output of a primitive       *)
(* records the inputs it was computed from, and the inverse primitive      *)
(* succeeds exactly when it is given the matching keys and nonce.          *)
(* Byte strings read from the randomness source are records                *)
(* [src, n, len]: a buffer of len bytes whose first n bytes were delivered *)
(* by the src-th Read of the source and whose other bytes are still the    *)
(* zero bytes of the freshly made buffer.                                  *)
(***************************************************************************)
EXTENDS Integers, Sequences, FiniteSets

VARIABLES
    args,   \* args[c]: the arguments (payload, sender, recKeys) of Encrypt call c
    pc,     \* pc[c]: the position of Encrypt call c
    loc,    \* loc[c]: the local variables of Encrypt call c
    res,    \* res[c]: what Encrypt call c returned: (out, err)
    fault,  \* fault[c]: the stage whose failure ended call c, and the error it gave
    rand,   \* the randomness source: the number of Reads made on it so far
    dec     \* the Decrypt call made on a returned envelope: its key and its result

vars == <<args, pc, loc, res, fault, rand, dec>>

-----------------------------------------------------------------------------
(* Bounds of the model. *)

\* the longest recipient list given to Encrypt
MaxRecipients == 2
\* the longest payload given to Encrypt
MaxPayloadLen == 2
\* the length of a well-formed signing public key (32 in the program)
KeyLen == 2

(* Program constants. *)

\* chacha.NonceSize
NonceSize == 12
\* chacha.KeySize
KeySize == 32
\* the size of the wrap nonce, var nonce [24]byte
WrapNonceSize == 24
\* poly1305.TagSize
TagSize == 16

\* the two Encrypt calls the model follows
Calls == {1, 2}

-----------------------------------------------------------------------------
(* Inputs. *)

\* a well-formed key: KeyLen bytes, the first one zero
K1 == [i \in 1..KeyLen |-> IF i = 1 THEN 0 ELSE 57]
\* a second well-formed key
K2 == [i \in 1..KeyLen |-> IF i = 1 THEN 1 ELSE 0]
\* a malformed key: one byte short
KBad == [i \in 1..(KeyLen - 1) |-> 57]

Keys == {K1, K2, KBad}

SeqsUpTo(S, n) == UNION {[1..m -> S] : m \in 0..n}

Payloads == SeqsUpTo({7}, MaxPayloadLen)

RecipientLists == SeqsUpTo(Keys, MaxRecipients)

Senders == {K1, K2}

Inputs == [payload : Payloads, sender : Senders, recKeys : RecipientLists]

Range(s) == {s[i] : i \in DOMAIN s}

\* the permutations of a sequence
Permutations(s) ==
    {[i \in DOMAIN s |-> s[p[i]]] :
        p \in {q \in [DOMAIN s -> DOMAIN s] : \A i, j \in DOMAIN s : q[i] = q[j] => i = j}}

\* the errors a collaborator (the randomness source, the KMS, the box) may return
ErrorValues == {"EOF", "failed"}

-----------------------------------------------------------------------------
(* Encodings. *)

Alphabet ==
    << "1", "2", "3", "4", "5", "6", "7", "8", "9", "A", "B", "C", "D", "E", "F",
       "G", "H", "J", "K", "L", "M", "N", "P", "Q", "R", "S", "T", "U", "V", "W",
       "X", "Y", "Z", "a", "b", "c", "d", "e", "f", "g", "h", "i", "j", "k", "m",
       "n", "o", "p", "q", "r", "s", "t", "u", "v", "w", "x", "y", "z" >>

RECURSIVE BytesToInt(_)
\* big.Int.SetBytes: the big-endian value of a byte string
BytesToInt(b) ==
    IF b = <<>> THEN 0
    ELSE 256 * BytesToInt(SubSeq(b, 1, Len(b) - 1)) + b[Len(b)]

RECURSIVE Digits58(_)
\* the base-58 digits of x, most significant first (none for 0)
Digits58(x) ==
    IF x = 0 THEN <<>>
    ELSE Append(Digits58(x \div 58), Alphabet[(x % 58) + 1])

RECURSIVE LeadingZeros(_)
\* one "1" for each leading zero byte
LeadingZeros(b) ==
    IF b = <<>> \/ b[1] # 0 THEN <<>>
    ELSE <<Alphabet[1]>> \o LeadingZeros(Tail(b))

\* Base58Encode without its loop over the leading zero bytes
Base58EncodeNoZeros(b) == Digits58(BytesToInt(b))

\* base58.Encode
Base58Encode(b) == LeadingZeros(b) \o Digits58(BytesToInt(b))

\* base64.URLEncoding.EncodeToString: the text that encodes the bytes x
B64(x) == <<"base64url", x>>

\* another text that decodes to the bytes x (line breaks or other padding)
B64Variant(x) == <<"base64url-variant", x>>

\* whether a text is base64 that decodes
IsB64(s) == Len(s) = 2 /\ s[1] \in {"base64url", "base64url-variant"}

\* the bytes a base64 text decodes to
B64Decode(s) == s[2]

\* json.Marshal: the bytes that serialize x (a nil byte string is <<>>)
JSON(x) == <<"json", x>>

\* whether bytes are a serialized value
IsJSON(b) == Len(b) = 2 /\ b[1] = "json"

\* the value serialized bytes parse to
JSONParse(b) == b[2]

\* the position of a character in the base-58 alphabet, from 0
CharIndex(ch) == (CHOOSE i \in 1..Len(Alphabet) : Alphabet[i] = ch) - 1

RECURSIVE DigitsToInt(_)
\* the value of a base-58 text
DigitsToInt(s) ==
    IF s = <<>> THEN 0
    ELSE 58 * DigitsToInt(SubSeq(s, 1, Len(s) - 1)) + CharIndex(s[Len(s)])

RECURSIVE IntToBytes(_)
\* big.Int.Bytes: the big-endian bytes of x (none for 0)
IntToBytes(x) ==
    IF x = 0 THEN <<>>
    ELSE Append(IntToBytes(x \div 256), x % 256)

RECURSIVE LeadingOnes(_)
\* one zero byte for each leading "1"
LeadingOnes(s) ==
    IF s = <<>> \/ s[1] # Alphabet[1] THEN <<>>
    ELSE <<0>> \o LeadingOnes(Tail(s))

\* base58.Decode
Base58Decode(s) == LeadingOnes(s) \o IntToBytes(DigitsToInt(s))

-----------------------------------------------------------------------------
(* The randomness source. *)

\* a freshly made buffer: len zero bytes
ZeroBuf(len) == [src |-> 0, n |-> 0, len |-> len]

\* the byte counts a Read that reports no error may deliver into len bytes:
\* all of them, or fewer (here none)
ReadCounts(len) == {0, len}

\* what one Read into a buffer of len bytes may return: (n, err)
ReadOutcomes(len) ==
    {[n |-> 0, err |-> e] : e \in ErrorValues}
        \cup {[n |-> n, err |-> ""] : n \in ReadCounts(len)}

\* the buffer after the id-th Read delivered n bytes into it
Fill(buf, n, id) ==
    IF n = 0 THEN buf ELSE [src |-> id, n |-> n, len |-> buf.len]

-----------------------------------------------------------------------------
(* Keys and the primitives. *)

\* the signing private key paired with the signing public key k
Priv(k) == [priv |-> k]

\* the signing public key of a signing private key
PubOf(sk) == sk.priv

\* the agreement (Curve25519) form of the signing key k
Curve(k) == [curve25519 |-> k]

\* the error of a key that is no Ed25519 public key
ErrInvalidKey == "invalid key"

\* cryptoutil.PublicEd25519toCurve25519: (key, err)
PublicEd25519toCurve25519(k) ==
    IF Len(k) = KeyLen
        THEN [key |-> Curve(k), err |-> ""]
        ELSE [key |-> Curve(k), err |-> ErrInvalidKey]

\* kms.ConvertToEncryptionKey: what the KMS may return for a signing key:
\* the agreement key of the pair it holds, or an error
ConvertToEncryptionKey(k) ==
    {[key |-> Curve(k), err |-> e] : e \in ErrorValues}
        \cup (IF Len(k) = KeyLen THEN {[key |-> Curve(k), err |-> ""]} ELSE {})

\* a value an attacker changed in transit
Flip(x) == [flipped |-> x]

IsFlipped(x) == "flipped" \in DOMAIN x

\* CryptoBox.Easy(payload, nonce, theirPub, myPub): the authenticated box
Easy(msg, nonce, theirPub, myPub) ==
    [box |-> "easy", msg |-> msg, nonce |-> nonce, to |-> theirPub, from |-> myPub]

\* CryptoBox.EasyOpen(box, nonce, theirPub, myPriv): (msg, ok)
EasyOpen(b, nonce, theirPub, sk) ==
    IF /\ ~IsFlipped(b)
       /\ ~IsFlipped(nonce)
       /\ b.box = "easy"
       /\ b.nonce = nonce
       /\ b.from = theirPub
       /\ b.to = Curve(PubOf(sk))
        THEN [msg |-> <<b.msg>>, ok |-> TRUE]
        ELSE [msg |-> <<>>, ok |-> FALSE]

\* CryptoBox.Seal(payload, theirEncPub, randSource): the anonymous box made
\* with the ephemeral key drawn by the eph-th Read of the randomness source
Seal(msg, theirPub, eph) ==
    [box |-> "seal", msg |-> msg, to |-> theirPub, eph |-> eph]

\* CryptoBox.SealOpen(box, recipientPriv): (msg, ok)
SealOpen(b, sk) ==
    IF ~IsFlipped(b) /\ b.box = "seal" /\ b.to = Curve(PubOf(sk))
        THEN [msg |-> b.msg, ok |-> TRUE]
        ELSE [msg |-> <<>>, ok |-> FALSE]

\* the Poly1305 tag of a ciphertext and its additional data
Tag(key, nonce, ct, aad) ==
    [j \in 1..TagSize |-> [k |-> key, n |-> nonce, j |-> j, ct |-> ct, aad |-> aad]]

\* the ChaCha20 ciphertext of a plaintext: byte i is the plaintext byte
\* under byte i of the key stream of (key, nonce)
Cipher(key, nonce, pt) ==
    [i \in 1..Len(pt) |-> [k |-> key, n |-> nonce, i |-> i, b |-> pt[i]]]

\* chachaCipher.Seal(nil, nonce, plaintext, additionalData)
ChachaSeal(key, nonce, pt, aad) ==
    Cipher(key, nonce, pt) \o Tag(key, nonce, Cipher(key, nonce, pt), aad)

\* chachaCipher.Open(nil, nonce, ciphertext, additionalData): (plaintext, ok)
ChachaOpen(key, nonce, sealed, aad) ==
    IF Len(sealed) < TagSize THEN [pt |-> <<>>, ok |-> FALSE]
    ELSE
        LET ct == SubSeq(sealed, 1, Len(sealed) - TagSize)
            tag == SubSeq(sealed, Len(sealed) - TagSize + 1, Len(sealed))
        IN  IF /\ \A i \in DOMAIN ct : ~IsFlipped(ct[i])
               /\ tag = Tag(key, nonce, ct, aad)
               /\ ct = Cipher(key, nonce, [i \in DOMAIN ct |-> ct[i].b])
                THEN [pt |-> [i \in DOMAIN ct |-> ct[i].b], ok |-> TRUE]
                ELSE [pt |-> <<>>, ok |-> FALSE]

-----------------------------------------------------------------------------
(* Encrypt: the values it builds. *)

\* errors.New("empty recipients keys, must have at least one recipient")
ErrEmptyRecipients == "empty recipients keys, must have at least one recipient"

\* a recipient entry whose kid is the sender's key
RecipientSenderKID(encCEK, recKey, encSender, nonce, senderKey) ==
    [encrypted_key |-> B64(encCEK),
     header |-> [kid |-> Base58Encode(senderKey),
                 sender |-> B64(encSender),
                 iv |-> B64(nonce)]]

\* a recipient entry whose kid lost its leading zero bytes
RecipientShortKID(encCEK, recKey, encSender, nonce, senderKey) ==
    [encrypted_key |-> B64(encCEK),
     header |-> [kid |-> Base58EncodeNoZeros(recKey),
                 sender |-> B64(encSender),
                 iv |-> B64(nonce)]]

\* the recipient struct buildRecipient returns
Recipient(encCEK, recKey, encSender, nonce, senderKey) ==
    [encrypted_key |-> B64(encCEK),
     header |-> [kid |-> Base58Encode(recKey),
                 sender |-> B64(encSender),
                 iv |-> B64(nonce)]]

\* Easy with the two keys exchanged
WrapCEKSwapped(cek, nonce, recEncKey, senderEncKey) ==
    Easy(cek, nonce, senderEncKey, recEncKey)

\* encCEK: box.Easy(cek[:], nonce[:], recEncKey, senderEncKey)
WrapCEK(cek, nonce, recEncKey, senderEncKey) ==
    Easy(cek, nonce, recEncKey, senderEncKey)

\* encSender: box.Seal([]byte(base58.Encode(senderKey)), recEncKey, c.randSource)
SealSender(senderKey, recEncKey, eph) ==
    Seal(Base58Encode(senderKey), recEncKey, eph)

\* the protected header Encrypt assembles
Protected(recipients) ==
    [enc |-> "chacha20poly1305_ietf",
     typ |-> "JWM/1.0",
     alg |-> "Authcrypt",
     recipients |-> recipients]

\* the additional data as the serialized header itself, not its base64 text
AdditionalDataRaw(protectedBytes, protectedB64) == protectedBytes

\* the additional data buildEnvelope gives to Seal: []byte(protectedB64)
AdditionalData(protectedBytes, protectedB64) == protectedB64

\* the tag from the tail of the sealed payload, the ciphertext from its head
SplitTag(symPld) ==
    [cipherText |-> SubSeq(symPld, 1, Len(symPld) - TagSize),
     tag |-> SubSeq(symPld, Len(symPld) - TagSize + 1, Len(symPld))]

\* buildEnvelope: the envelope bytes
buildEnvelope(nonce, payload, cek, protected) ==
    LET protectedBytes == JSON(protected)
        protectedB64 == B64(protectedBytes)
        symPld == ChachaSeal(cek, nonce, payload,
                             AdditionalData(protectedBytes, protectedB64))
        parts == SplitTag(symPld)
    IN  JSON([protected |-> protectedB64,
              iv |-> B64(nonce),
              ciphertext |-> B64(parts.cipherText),
              tag |-> B64(parts.tag)])

-----------------------------------------------------------------------------
(* Decrypt, the inverse of Encrypt. *)

PrivKeys == {Priv(K1), Priv(K2)}

DecryptError(e) == [err |-> e, payload |-> <<>>, sender |-> <<>>, entry |-> 0]

\* the entries of a header whose kid is the text of a public key
Matching(header, pub) ==
    {i \in DOMAIN header.recipients :
        header.recipients[i].header.kid = Base58Encode(pub)}

Min(S) == CHOOSE x \in S : \A y \in S : x <= y

\* Decrypt steps 2 to 5, on the recipient entry found for the caller
DecryptEntry(envelope, i, sk) ==
    LET header == JSONParse(B64Decode(envelope.protected))
        entry == header.recipients[i]
        opened == SealOpen(B64Decode(entry.header.sender), sk)
        senderKey == Base58Decode(opened.msg)
        senderEnc == PublicEd25519toCurve25519(senderKey)
        unwrapped == EasyOpen(B64Decode(entry.encrypted_key),
                              B64Decode(entry.header.iv), senderEnc.key, sk)
        plain == ChachaOpen(unwrapped.msg[1], B64Decode(envelope.iv),
                            B64Decode(envelope.ciphertext) \o B64Decode(envelope.tag),
                            envelope.protected)
    IN  IF ~opened.ok THEN [DecryptError("AuthenticationFailure") EXCEPT !.entry = i]
        ELSE IF senderEnc.err # ""
            THEN [DecryptError("KeyConversionFailure") EXCEPT !.entry = i]
        ELSE IF ~unwrapped.ok
            THEN [DecryptError("AuthenticationFailure") EXCEPT !.entry = i]
        ELSE IF ~plain.ok
            THEN [DecryptError("AuthenticationFailure") EXCEPT !.entry = i]
        ELSE [err |-> "", payload |-> plain.pt, sender |-> senderKey, entry |-> i]

\* Decrypt(envelope, ownPrivateKey): (payload, senderKey) or an error; entry
\* is the recipient entry whose unsealing was attempted (0: none)
Decrypt(out, sk) ==
    IF ~IsJSON(out) THEN DecryptError("SerializationFailure")
    ELSE LET envelope == JSONParse(out)
         IN  IF ~IsB64(envelope.protected) \/ ~IsJSON(B64Decode(envelope.protected))
                 THEN DecryptError("SerializationFailure")
             ELSE LET header == JSONParse(B64Decode(envelope.protected))
                      found == Matching(header, PubOf(sk))
                  IN  IF found = {} THEN DecryptError("RecipientNotFound")
                      ELSE DecryptEntry(envelope, Min(found), sk)

-----------------------------------------------------------------------------
(* Envelopes changed in transit. *)

\* a sequence with element i changed
FlipAt(s, i) == [s EXCEPT ![i] = Flip(s[i])]

\* envelope bytes with the field changed by f
WithField(out, field, f(_)) ==
    LET envelope == JSONParse(out)
    IN  JSON([envelope EXCEPT ![field] = f(envelope[field])])

\* the protected text of a header with recipient entry i changed by f
WithEntry(text, i, f(_)) ==
    LET header == JSONParse(B64Decode(text))
    IN  B64(JSON([header EXCEPT !.recipients[i] = f(header.recipients[i])]))

\* the ways a produced envelope is changed: each names the envelope field, the
\* part of it that changes, and gives the changed envelope bytes
Tampers(out) ==
    LET envelope == JSONParse(out)
        ct == B64Decode(envelope.ciphertext)
        header == JSONParse(B64Decode(envelope.protected))
        FlipCt(i) == LET f(t) == B64(FlipAt(B64Decode(t), i)) IN WithField(out, "ciphertext", f)
        FlipTag(j) == LET f(t) == B64(FlipAt(B64Decode(t), j)) IN WithField(out, "tag", f)
        Kid(i) == LET g(e) == [e EXCEPT !.header.kid = Append(@, Alphabet[1])]
                      f(t) == WithEntry(t, i, g)
                  IN  WithField(out, "protected", f)
        Key(i) == LET g(e) == [e EXCEPT !.encrypted_key = B64(Flip(B64Decode(@)))]
                      f(t) == WithEntry(t, i, g)
                  IN  WithField(out, "protected", f)
        Snd(i) == LET g(e) == [e EXCEPT !.header.sender = B64(Flip(B64Decode(@)))]
                      f(t) == WithEntry(t, i, g)
                  IN  WithField(out, "protected", f)
        Iv(i) == LET g(e) == [e EXCEPT !.header.iv = B64(Flip(B64Decode(@)))]
                     f(t) == WithEntry(t, i, g)
                 IN  WithField(out, "protected", f)
        Enc == LET f(t) == B64(JSON([header EXCEPT !.enc = "none"]))
               IN  WithField(out, "protected", f)
        Text == LET f(t) == B64Variant(B64Decode(t)) IN WithField(out, "protected", f)
        Bad == LET f(t) == <<"malformed", B64Decode(t)>> IN WithField(out, "protected", f)
    IN  {[field |-> "ciphertext", part |-> "byte", out |-> FlipCt(i)] : i \in DOMAIN ct}
        \cup {[field |-> "tag", part |-> "byte", out |-> FlipTag(j)] : j \in {1, TagSize}}
        \cup {[field |-> "protected", part |-> "kid", out |-> Kid(i)] : i \in DOMAIN header.recipients}
        \cup {[field |-> "protected", part |-> "encrypted_key", out |-> Key(i)] : i \in DOMAIN header.recipients}
        \cup {[field |-> "protected", part |-> "sender", out |-> Snd(i)] : i \in DOMAIN header.recipients}
        \cup {[field |-> "protected", part |-> "iv", out |-> Iv(i)] : i \in DOMAIN header.recipients}
        \cup {[field |-> "protected", part |-> "enc", out |-> Enc],
              [field |-> "protected", part |-> "text", out |-> Text],
              [field |-> "protected", part |-> "malformed", out |-> Bad]}

-----------------------------------------------------------------------------
(* The state machine. *)

NoKey == Curve(<<>>)

NoBox == [box |-> "none"]

\* a recipient struct as make([]recipient, n) gives it: empty strings
ZeroRecipient ==
    [encrypted_key |-> <<>>, header |-> [kid |-> <<>>, sender |-> <<>>, iv |-> <<>>]]

\* the locals of an Encrypt call before its first statement
InitLoc ==
    [nonce |-> ZeroBuf(NonceSize),
     cek |-> ZeroBuf(KeySize),
     recipients |-> <<>>,
     i |-> 0,
     wnonce |-> ZeroBuf(WrapNonceSize),
     senderEncKey |-> NoKey,
     recEncKey |-> NoKey,
     encCEK |-> NoBox]

NoResult == [out |-> <<>>, err |-> ""]

NoFault == [stage |-> "", err |-> ""]

NoDec ==
    [valid |-> FALSE, call |-> 0, sk |-> Priv(<<>>), field |-> "", part |-> "",
     res |-> DecryptError("")]

InitCalls ==
    /\ pc = [c \in Calls |-> "begin"]
    /\ loc = [c \in Calls |-> InitLoc]
    /\ res = [c \in Calls |-> NoResult]
    /\ fault = [c \in Calls |-> NoFault]
    /\ rand = 0
    /\ dec = NoDec

\* one Encrypt call with any arguments
Init ==
    /\ \E a \in Inputs : args = [c \in Calls |-> a]
    /\ InitCalls

\* the first recipient key, whatever the loop index
RecKeyFirst(c) == args[c].recKeys[1]

\* recKey: the recipient key the loop of buildRecipients is at
RecKey(c) == args[c].recKeys[loc[c].i]

\* the recipient stored from the end of the slice
StoreRecipientReversed(recipients, i, r) ==
    [recipients EXCEPT ![Len(recipients) + 1 - i] = r]

\* encodedRecipients[i] = *recipient
StoreRecipient(recipients, i, r) == [recipients EXCEPT ![i] = r]

\* an error that is dropped: the call goes on to build the envelope from
\* what it has
AbortIgnored(c, e, stage) ==
    /\ pc' = [pc EXCEPT ![c] = "envelope"]
    /\ loc' = loc
    /\ res' = res
    /\ fault' = [fault EXCEPT ![c] = [stage |-> stage, err |-> e]]

\* return nil, err: the call ends with no bytes and the error as it was given
Abort(c, e, stage) ==
    /\ pc' = [pc EXCEPT ![c] = "done"]
    /\ loc' = [loc EXCEPT ![c] = InitLoc]
    /\ res' = [res EXCEPT ![c] = [out |-> <<>>, err |-> e]]
    /\ fault' = [fault EXCEPT ![c] = [stage |-> stage, err |-> e]]

\* locals kept in one place for all calls, as fields of the Crypter would be
GotoShared(c, p, l) ==
    /\ pc' = [pc EXCEPT ![c] = p]
    /\ loc' = [d \in Calls |-> l]
    /\ UNCHANGED <<res, fault>>

\* the call goes on at position p with its locals l
Goto(c, p, l) ==
    /\ pc' = [pc EXCEPT ![c] = p]
    /\ loc' = [loc EXCEPT ![c] = l]
    /\ UNCHANGED <<res, fault>>

\* Encrypt that reads the payload nonce before it looks at the recipients
EncryptBeginReadFirst(c) ==
    /\ pc[c] = "begin"
    /\ \E o \in ReadOutcomes(NonceSize) :
        /\ rand' = rand + 1
        /\ IF o.err # "" THEN Abort(c, o.err, "rand")
           ELSE IF Len(args[c].recKeys) = 0 THEN Abort(c, ErrEmptyRecipients, "input")
           ELSE Goto(c, "cek", [loc[c] EXCEPT !.nonce = Fill(@, o.n, rand + 1)])
    /\ UNCHANGED <<args, dec>>

\* Encrypt, to the read of the payload nonce
EncryptBegin(c) ==
    /\ pc[c] = "begin"
    /\ IF Len(args[c].recKeys) = 0
          THEN Abort(c, ErrEmptyRecipients, "input") /\ UNCHANGED rand
          ELSE \E o \in ReadOutcomes(NonceSize) :
                /\ rand' = rand + 1
                /\ IF o.err # "" THEN Abort(c, o.err, "rand")
                   ELSE Goto(c, "cek", [loc[c] EXCEPT !.nonce = Fill(@, o.n, rand + 1)])
    /\ UNCHANGED <<args, dec>>

\* Encrypt: the read of the content encryption key; buildRecipients makes
\* its slice
ReadCEK(c) ==
    /\ pc[c] = "cek"
    /\ \E o \in ReadOutcomes(KeySize) :
        /\ rand' = rand + 1
        /\ IF o.err # "" THEN Abort(c, o.err, "rand")
           ELSE Goto(c, "wnonce",
                     [loc[c] EXCEPT !.cek = Fill(@, o.n, rand + 1),
                                    !.recipients = [k \in 1..Len(args[c].recKeys) |-> ZeroRecipient],
                                    !.i = 1])
    /\ UNCHANGED <<args, dec>>

\* buildRecipient: the read of the wrap nonce
ReadWrapNonce(c) ==
    /\ pc[c] = "wnonce"
    /\ \E o \in ReadOutcomes(WrapNonceSize) :
        /\ rand' = rand + 1
        /\ IF o.err # "" THEN Abort(c, o.err, "rand")
           ELSE Goto(c, "convert", [loc[c] EXCEPT !.wnonce = Fill(@, o.n, rand + 1)])
    /\ UNCHANGED <<args, dec>>

\* buildRecipient: the sender's and the recipient's agreement keys
ConvertKeys(c) ==
    /\ pc[c] = "convert"
    /\ \E s \in ConvertToEncryptionKey(args[c].sender) :
        LET r == PublicEd25519toCurve25519(RecKey(c))
        IN  IF s.err # "" THEN Abort(c, s.err, "keyconv")
            ELSE IF r.err # "" THEN Abort(c, r.err, "keyconv")
            ELSE Goto(c, "wrap", [loc[c] EXCEPT !.senderEncKey = s.key,
                                                 !.recEncKey = r.key])
    /\ UNCHANGED <<args, rand, dec>>

\* buildRecipient: the crypto box and the wrapped key
WrapKey(c) ==
    /\ pc[c] = "wrap"
    /\ \E e \in {""} \cup ErrorValues :
        IF e # "" THEN Abort(c, e, "box")
        ELSE Goto(c, "seal",
                  [loc[c] EXCEPT !.encCEK = WrapCEK(loc[c].cek, loc[c].wnonce,
                                                    loc[c].recEncKey,
                                                    loc[c].senderEncKey)])
    /\ UNCHANGED <<args, rand, dec>>

\* buildRecipient: the sealed sender and the recipient struct, which
\* buildRecipients stores; after the last one Encrypt goes on
SealAndStore(c) ==
    /\ pc[c] = "seal"
    /\ \E e \in {""} \cup ErrorValues :
        /\ rand' = rand + 1
        /\ IF e # "" THEN Abort(c, e, "box")
           ELSE LET l == loc[c]
                    r == Recipient(l.encCEK, RecKey(c),
                                   SealSender(args[c].sender, l.recEncKey, rand + 1),
                                   l.wnonce, args[c].sender)
                    all == StoreRecipient(l.recipients, l.i, r)
                IN  Goto(c,
                         IF l.i = Len(args[c].recKeys) THEN "envelope" ELSE "wnonce",
                         [l EXCEPT !.recipients = all,
                                   !.i = l.i + 1,
                                   !.wnonce = ZeroBuf(WrapNonceSize),
                                   !.senderEncKey = NoKey,
                                   !.recEncKey = NoKey,
                                   !.encCEK = NoBox])
    /\ UNCHANGED <<args, dec>>

\* Encrypt: the protected header and the envelope it returns
BuildEnvelope(c) ==
    /\ pc[c] = "envelope"
    /\ pc' = [pc EXCEPT ![c] = "done"]
    /\ res' = [res EXCEPT ![c] =
                 [out |-> buildEnvelope(loc[c].nonce, args[c].payload, loc[c].cek,
                                        Protected(loc[c].recipients)),
                  err |-> ""]]
    /\ UNCHANGED <<args, loc, fault, rand, dec>>

\* the steps of Encrypt call c
Encrypt(c) ==
    \/ EncryptBegin(c)
    \/ ReadCEK(c)
    \/ ReadWrapNonce(c)
    \/ ConvertKeys(c)
    \/ WrapKey(c)
    \/ SealAndStore(c)
    \/ BuildEnvelope(c)

\* whether call c returned an envelope
Returned(c) == pc[c] = "done" /\ res[c].err = ""

\* Decrypt of the envelope call c returned
DecryptCall(c, sk) ==
    /\ Returned(c)
    /\ ~dec.valid
    /\ dec' = [valid |-> TRUE, call |-> c, sk |-> sk, field |-> "none", part |-> "",
               res |-> Decrypt(res[c].out, sk)]
    /\ UNCHANGED <<args, pc, loc, res, fault, rand>>

\* Decrypt of the envelope call c returned, changed in transit
DecryptTampered(c, sk) ==
    /\ Returned(c)
    /\ ~dec.valid
    /\ \E t \in Tampers(res[c].out) :
        dec' = [valid |-> TRUE, call |-> c, sk |-> sk, field |-> t.field,
                part |-> t.part, res |-> Decrypt(t.out, sk)]
    /\ UNCHANGED <<args, pc, loc, res, fault, rand>>

\* one Encrypt call, then a Decrypt call on what it returned
Next ==
    \/ Encrypt(1)
    \/ \E sk \in PrivKeys : DecryptCall(1, sk)
    \/ \E sk \in PrivKeys : DecryptTampered(1, sk)

Spec == Init /\ [][Next]_vars

\* the arguments of a repeated call: the longest payload, one sender and
\* well-formed recipient keys
RepeatInputs ==
    {a \in Inputs : /\ Len(a.payload) = MaxPayloadLen
                    /\ a.sender = K1
                    /\ Range(a.recKeys) \subseteq {K1, K2}}

\* two Encrypt calls with the same payload and sender, the recipient list of
\* the second a permutation of the list of the first
InitRepeat ==
    /\ \E a \in RepeatInputs : \E r \in Permutations(a.recKeys) :
        args = [c \in Calls |-> IF c = 1 THEN a ELSE [a EXCEPT !.recKeys = r]]
    /\ InitCalls

\* whether every call returned
AllDone == \A c \in Calls : pc[c] = "done"

\* the second call follows the first; then a Decrypt call on what either returned
NextRepeat ==
    \/ Encrypt(1)
    \/ pc[1] = "done" /\ Encrypt(2)
    \/ \E c \in Calls, sk \in PrivKeys : AllDone /\ DecryptCall(c, sk)

SpecRepeat == InitRepeat /\ [][NextRepeat]_vars

\* the arguments of the first of two concurrent calls: the longest payload
\* and a list of different recipients
ConcurrentFirst ==
    [payload |-> [i \in 1..MaxPayloadLen |-> 7],
     sender |-> K1,
     recKeys |-> [i \in 1..(MaxRecipients - 1) |-> IF i % 2 = 1 THEN K1 ELSE K2]]

\* the arguments of the second: another sender, a shorter payload and at
\* most one recipient
ConcurrentInputs ==
    {a \in Inputs : /\ Len(a.payload) = MaxPayloadLen - 1
                    /\ a.sender = K2
                    /\ Len(a.recKeys) <= 1
                    /\ Range(a.recKeys) \subseteq {K1, K2}}

\* two Encrypt calls on one Crypter, each with its own arguments
InitConcurrent ==
    /\ \E b \in ConcurrentInputs :
        args = [c \in Calls |-> IF c = 1 THEN ConcurrentFirst ELSE b]
    /\ InitCalls

\* the steps of the two calls in any order
NextConcurrent == \E c \in Calls : Encrypt(c)

SpecConcurrent == InitConcurrent /\ [][NextConcurrent]_vars

-----------------------------------------------------------------------------
(* What a call returned, taken apart. *)

\* the envelope call c returned
EnvelopeOf(c) == JSONParse(res[c].out)

\* the protected header of the envelope call c returned
HeaderOf(c) == JSONParse(B64Decode(EnvelopeOf(c).protected))

\* whether the Decrypt call was given the envelope as it was returned
Untampered == dec.valid /\ dec.field = "none"

\* whether the Decrypt call was given a changed envelope
Tampered == dec.valid /\ dec.field # "none"

\* whether the caller of Decrypt is one of the recipients of the envelope's call
Member == PubOf(dec.sk) \in Range(args[dec.call].recKeys)

-----------------------------------------------------------------------------
(* The claims. *)

\* C1: round trip. Decrypt of the envelope Encrypt(P, S, R) returned, with
\* the private key of any recipient in R, returns exactly (P, S). (Checked
\* for every payload, the empty one too.)
C1_RoundTrip ==
    (Untampered /\ Member) =>
        /\ dec.res.err = ""
        /\ dec.res.payload = args[dec.call].payload
        /\ dec.res.sender = args[dec.call].sender

\* C1 happens: the second of two different recipients decrypts a payload
\* that is not empty
C1_Witness ==
    /\ Untampered
    /\ Len(args[dec.call].payload) > 0
    /\ Len(args[dec.call].recKeys) = 2
    /\ args[dec.call].recKeys[1] # args[dec.call].recKeys[2]
    /\ PubOf(dec.sk) = args[dec.call].recKeys[2]
    /\ dec.res.err = ""
    /\ dec.res.payload = args[dec.call].payload

\* C2: Encrypt with an empty recipient list ends at once with the error of
\* the empty list and no bytes, and the step that ends it makes no Read on
\* the randomness source and leaves the call's locals as they were made.
C2_EmptyRejected ==
    [][\A c \in Calls :
        (pc[c] = "begin" /\ Len(args[c].recKeys) = 0 /\ pc'[c] # pc[c]) =>
            /\ pc'[c] = "done"
            /\ res'[c] = [out |-> <<>>, err |-> ErrEmptyRecipients]
            /\ fault'[c].stage = "input"
            /\ rand' = rand
            /\ loc'[c] = InitLoc]_vars

\* C2 happens: a call with no recipients has returned, and no Read was made
C2_Witness ==
    /\ pc[1] = "done"
    /\ Len(args[1].recKeys) = 0
    /\ res[1].err = ErrEmptyRecipients
    /\ res[1].out = <<>>
    /\ rand = 0

C4_NonMember ==
    Untampered =>
        /\ ~Member => dec.res.err = "RecipientNotFound" /\ dec.res.entry = 0
        /\ dec.res.entry # 0 =>
            /\ HeaderOf(dec.call).recipients[dec.res.entry].header.kid
                    = Base58Encode(PubOf(dec.sk))
            /\ Member

\* C4 happens: a key outside the recipient list is told RecipientNotFound
C4_Witness ==
    /\ Untampered
    /\ ~Member
    /\ args[dec.call].recKeys # <<>>
    /\ dec.res.err = "RecipientNotFound"

\* the ciphertext bytes in the envelope call c returned
CipherTextOf(c) == B64Decode(EnvelopeOf(c).ciphertext)

\* the tag bytes in the envelope call c returned
TagOf(c) == B64Decode(EnvelopeOf(c).tag)

\* the wrapped keys in the envelope call c returned
WrappedKeysOf(c) ==
    {B64Decode(HeaderOf(c).recipients[i].encrypted_key) :
        i \in DOMAIN HeaderOf(c).recipients}

\* the wrap nonces in the envelope call c returned, entry by entry
WrapNoncesOf(c) ==
    [i \in DOMAIN HeaderOf(c).recipients |->
        B64Decode(HeaderOf(c).recipients[i].header.iv)]

\* C5: two Encrypt calls with the same payload, sender and recipient list
\* return different ciphertexts and different wrapped keys; the payload
\* nonce and the key of one call are not those of the other, and no two
\* recipient entries, of one call or of both, have the same wrap nonce.
C5_Fresh ==
    (Returned(1) /\ Returned(2) /\ args[1] = args[2]) =>
        /\ CipherTextOf(1) # CipherTextOf(2)
        /\ WrappedKeysOf(1) \cap WrappedKeysOf(2) = {}
        /\ loc[1].nonce # loc[2].nonce
        /\ loc[1].cek # loc[2].cek
        /\ \A c, d \in Calls : \A i \in DOMAIN WrapNoncesOf(c), j \in DOMAIN WrapNoncesOf(d) :
            (c # d \/ i # j) => WrapNoncesOf(c)[i] # WrapNoncesOf(d)[j]

\* C6: a call that failed at any stage returned an error and no bytes, and
\* nothing is returned before the call ends; an envelope is returned only
\* with no error, by a call no stage of which failed, and its header holds
\* one built entry for each recipient key.
C6_AllOrNothing ==
    \A c \in Calls :
        /\ pc[c] # "done" => res[c] = NoResult
        /\ fault[c].stage # "" => pc[c] = "done" /\ res[c].err # "" /\ res[c].out = <<>>
        /\ pc[c] = "done" =>
            /\ res[c].err # "" => res[c].out = <<>>
            /\ res[c].err = "" =>
                /\ res[c].out # <<>>
                /\ Len(HeaderOf(c).recipients) = Len(args[c].recKeys)
                /\ \A i \in DOMAIN HeaderOf(c).recipients :
                    HeaderOf(c).recipients[i] # ZeroRecipient

\* C6 happens: the key conversion of the second of two recipients failed
\* after the first was wrapped, and the call returned no bytes
C6_Witness ==
    /\ pc[1] = "done"
    /\ Len(args[1].recKeys) = 2
    /\ Len(args[1].recKeys[1]) = KeyLen
    /\ args[1].recKeys[2] = KBad
    /\ fault[1] = [stage |-> "keyconv", err |-> ErrInvalidKey]
    /\ res[1].out = <<>>
    /\ res[1].err # ""

\* the stages of Encrypt that can fail
Stages == {"input", "rand", "keyconv", "box"}

\* C7: the error of a failed call identifies the stage that failed, so two
\* calls that failed at different stages returned errors that differ.
C7_StageIdentified ==
    \A c, d \in Calls :
        (/\ pc[c] = "done" /\ pc[d] = "done"
         /\ fault[c].stage # "" /\ fault[d].stage # ""
         /\ fault[c].stage # fault[d].stage) => res[c].err # res[d].err

\* C8: with the recipient list of the second call a permutation of the
\* list of the first, a recipient decrypts the envelope of either call to
\* the payload and sender it decrypts the envelope of the other call to.
C8_OrderIndependent ==
    (Untampered /\ Returned(1) /\ Returned(2) /\ Member) =>
        LET other == Decrypt(res[3 - dec.call].out, dec.sk)
        IN  /\ dec.res.err = ""
            /\ other.err = ""
            /\ dec.res.payload = other.payload
            /\ dec.res.sender = other.sender
            /\ dec.res.payload = args[1].payload
            /\ dec.res.sender = args[1].sender

\* C8 happens: the recipient first in the list of the first call and last
\* in the list of the second decrypts the envelope of the second call
C8_Witness ==
    /\ Untampered
    /\ Returned(1)
    /\ Returned(2)
    /\ Len(args[1].recKeys) = 2
    /\ args[1].recKeys # args[2].recKeys
    /\ dec.call = 2
    /\ PubOf(dec.sk) = args[1].recKeys[1]
    /\ dec.res.err = ""

\* C9: the protected header of a returned envelope has the three fixed
\* identifiers and one recipient entry for each input key, in the order of
\* the input: entry i has the base-58 text of recipientPubKeys[i] as its
\* kid, which decodes to that key.
C9_Header ==
    \A c \in Calls :
        Returned(c) =>
            /\ HeaderOf(c).enc = "chacha20poly1305_ietf"
            /\ HeaderOf(c).typ = "JWM/1.0"
            /\ HeaderOf(c).alg = "Authcrypt"
            /\ Len(HeaderOf(c).recipients) = Len(args[c].recKeys)
            /\ \A i \in DOMAIN args[c].recKeys :
                /\ HeaderOf(c).recipients[i].header.kid = Base58Encode(args[c].recKeys[i])
                /\ Base58Decode(HeaderOf(c).recipients[i].header.kid) = args[c].recKeys[i]

\* C9 happens: an envelope for the same key given twice has two entries
\* with that key's kid
C9_Witness ==
    /\ Returned(1)
    /\ args[1].recKeys = <<K1, K1>>
    /\ Len(HeaderOf(1).recipients) = 2
    /\ HeaderOf(1).recipients[1].header.kid = HeaderOf(1).recipients[2].header.kid
    /\ HeaderOf(1).recipients[1].header.kid = <<"1", "z">>

\* C10: the protected field is the base64 text of the serialized header;
\* the ciphertext followed by the tag is what the AEAD returned for the
\* payload under the call's key and payload nonce with that text as
\* additional data; the tag is the last TagSize bytes of it and the
\* ciphertext is as long as the payload.
C10_Envelope ==
    \A c \in Calls :
        Returned(c) =>
            /\ EnvelopeOf(c).protected = B64(JSON(Protected(loc[c].recipients)))
            /\ EnvelopeOf(c).iv = B64(loc[c].nonce)
            /\ CipherTextOf(c) \o TagOf(c)
                    = ChachaSeal(loc[c].cek, loc[c].nonce, args[c].payload,
                                 EnvelopeOf(c).protected)
            /\ Len(TagOf(c)) = TagSize
            /\ Len(CipherTextOf(c)) = Len(args[c].payload)
            /\ \A j \in DOMAIN TagOf(c) : TagOf(c)[j].aad = EnvelopeOf(c).protected

\* C10 happens: an envelope for a payload of the greatest length, whose
\* tag was computed over the protected text
C10_Witness ==
    /\ Returned(1)
    /\ Len(args[1].payload) = MaxPayloadLen
    /\ Len(CipherTextOf(1)) = MaxPayloadLen
    /\ Len(TagOf(1)) = TagSize
    /\ TagOf(1)[TagSize].aad = EnvelopeOf(1).protected

\* the Reads a call has made on the randomness source when it begins with
\* recipient i: the payload nonce, the key, and for each recipient before i
\* the wrap nonce and the seal's ephemeral key
ReadsBefore(i) == 2 + 2 * (i - 1)

\* C11: buildRecipient converts the sender's and the recipient's key before
\* it draws the wrap nonce, so the step at which a key conversion fails for
\* recipient i finds no Read made for that recipient: the source was read
\* ReadsBefore(i) times. (Call 1 is the only call that reads the source.)
C11_ConvertBeforeDraw ==
    [][(pc[1] # "done" /\ pc'[1] = "done" /\ fault'[1].stage = "keyconv") =>
            rand' = ReadsBefore(loc[1].i)]_vars

\* the sealed sender in entry i of the envelope call c returned
SealedSenderOf(c, i) == B64Decode(HeaderOf(c).recipients[i].header.sender)

\* the Reads whose bytes are in the envelope call c returned
ReadsIn(c) ==
    ({loc[c].nonce.src, loc[c].cek.src}
        \cup {WrapNoncesOf(c)[i].src : i \in DOMAIN WrapNoncesOf(c)}
        \cup {SealedSenderOf(c, i).eph : i \in DOMAIN HeaderOf(c).recipients}) \ {0}

\* the entry a call alone builds for the recipient key k from its arguments
\* a, its key, and the wrap nonce and ephemeral key it read
EntryAlone(a, cek, k, wnonce, eph) ==
    Recipient(WrapCEK(cek, wnonce, Curve(k), Curve(a.sender)), k,
              SealSender(a.sender, Curve(k), eph), wnonce, a.sender)

\* the envelope a call alone builds from its arguments a and what it read
EnvelopeAlone(a, nonce, cek, wnonces, ephs) ==
    buildEnvelope(nonce, a.payload, cek,
                  Protected([i \in DOMAIN a.recKeys |->
                                EntryAlone(a, cek, a.recKeys[i], wnonces[i], ephs[i])]))

\* whether what call c returned is what a call alone returns for c's
\* arguments and the bytes c read
OwnResult(c) ==
    /\ res[c].err # "" => res[c].out = <<>> /\ res[c].err = fault[c].err
    /\ Returned(c) =>
        /\ Len(HeaderOf(c).recipients) = Len(args[c].recKeys)
        /\ res[c].out = EnvelopeAlone(args[c], loc[c].nonce, loc[c].cek, WrapNoncesOf(c),
                                      [i \in DOMAIN HeaderOf(c).recipients |->
                                            SealedSenderOf(c, i).eph])
        /\ ReadsIn(c) \subseteq 1..rand

\* C12: concurrent Encrypt calls are independent. A step of one call leaves
\* the arguments of both and the position, locals and result of the other
\* as they were; what a call returns is what a call alone returns for its
\* own arguments and the bytes it read itself; and no Read gave its bytes
\* to both calls.
C12_Independent ==
    /\ [][/\ args' = args
          /\ \A c \in Calls :
                pc'[c] = pc[c] =>
                    loc'[c] = loc[c] /\ res'[c] = res[c] /\ fault'[c] = fault[c]]_vars
    /\ [](\A c \in Calls : pc[c] = "done" => OwnResult(c))
    /\ []((Returned(1) /\ Returned(2)) => ReadsIn(1) \cap ReadsIn(2) = {})

\* C12 happens: both calls returned envelopes for different recipient lists
\* after their Reads of the payload nonce and the key were interleaved
C12_Witness ==
    /\ Returned(1)
    /\ Returned(2)
    /\ args[1].recKeys # args[2].recKeys
    /\ Len(args[2].recKeys) = 1
    /\ loc[1].nonce.src = 1
    /\ loc[2].nonce.src = 2
    /\ loc[1].cek.src = 3
    /\ loc[2].cek.src = 4

\* C13: a call that returned an envelope filled the payload nonce, the key
\* and every recipient's wrap nonce completely from the randomness source:
\* none of them holds bytes of the zeroed buffer a short Read left.
C13_FilledCompletely ==
    \A c \in Calls :
        Returned(c) =>
            /\ loc[c].nonce.n = NonceSize
            /\ loc[c].cek.n = KeySize
            /\ B64Decode(EnvelopeOf(c).iv).n = NonceSize
            /\ \A i \in DOMAIN WrapNoncesOf(c) : WrapNoncesOf(c)[i].n = WrapNonceSize

=============================================================================
